---- MODULE Spec2Model ----
(***************************************************************************)
(* Model of src/src/components/ModelViewer.jsx: the 3D viewer panel, its   *)
(* scene content and the highlight routine updateHighlight.                *)
(*                                                                         *)
(* The source file holds two builds of the component:                      *)
(*   - the procedural (demo) viewer, lines 1-330, whose parts are built    *)
(*     from fixed tables and are selected by name;                         *)
(*   - the file-loaded viewer, lines 331-651, whose meshes come from an    *)
(*     asset and are selected by uuid.                                     *)
(* The variable variant says which build runs.                             *)
(*                                                                         *)
(* JavaScript strings are modelled as sequences of one-character strings,  *)
(* so that toLowerCase, trim and includes are computed, not assumed.       *)
(* Numbers of material fields are kept as their decimal text ("0.6").      *)
(***************************************************************************)
EXTENDS Integers, Sequences, FiniteSets, TLC

VARIABLES
    variant,       \* "procedural" or "file": which build of the component runs
    activeSystem,  \* useState activeSystem: index into SYSTEMS
    selectedPart,  \* useState selectedPart: Null or the reported part bundle
    searchTerm,    \* useState searchTerm
    autoRotate,    \* useState autoRotate
    orbitMoved,    \* whether the orbit control has left its initial pose
    scene,         \* the root handed to updateHighlight (groupRef.current / loaded scene)
    effectDeps,    \* dependency array React keeps for the highlight effect
    lastCall,      \* arguments of the most recent updateHighlight invocation
    lastEvent,     \* the most recent UI event and the state it came from
    threw          \* whether an invocation of updateHighlight raised an error

vars == <<variant, activeSystem, selectedPart, searchTerm, autoRotate,
          orbitMoved, scene, effectDeps, lastCall, lastEvent, threw>>

(***************************************************************************)
(* JavaScript values                                                       *)
(***************************************************************************)

\* The value undefined, where a string is expected (a missing property).
Undefined == <<"undefined">>

\* The value null of useState(null).
Null == [isNull |-> TRUE]

\* Truthiness of a string-or-undefined value: undefined and '' are falsy.
Truthy(v) == v # Undefined /\ v # <<>>

\* (v || '')
OrEmpty(v) == IF Truthy(v) THEN v ELSE <<>>

UpperLetters ==
    <<"A","B","C","D","E","F","G","H","I","J","K","L","M",
      "N","O","P","Q","R","S","T","U","V","W","X","Y","Z">>

LowerLetters ==
    <<"a","b","c","d","e","f","g","h","i","j","k","l","m",
      "n","o","p","q","r","s","t","u","v","w","x","y","z">>

WhiteSpace == {" ", "\t", "\n"}

\* The lower-case letter of each upper-case letter.
LowerOf ==
    [c \in {UpperLetters[i] : i \in 1..Len(UpperLetters)} |->
        LowerLetters[CHOOSE i \in 1..Len(UpperLetters) : UpperLetters[i] = c]]

LowerChar(c) == IF c \in DOMAIN LowerOf THEN LowerOf[c] ELSE c

\* String.prototype.toLowerCase
ToLowerCase(s) == [i \in 1..Len(s) |-> LowerChar(s[i])]

\* String.prototype.trim: drops leading and trailing white space.
RECURSIVE TrimStart(_)
TrimStart(s) ==
    IF s # <<>> /\ Head(s) \in WhiteSpace THEN TrimStart(Tail(s)) ELSE s

RECURSIVE TrimEnd(_)
TrimEnd(s) ==
    IF s # <<>> /\ s[Len(s)] \in WhiteSpace
    THEN TrimEnd(SubSeq(s, 1, Len(s) - 1))
    ELSE s

Trim(s) == TrimEnd(TrimStart(s))

\* Whether needle is a prefix of hay.
RECURSIVE StartsWith(_, _)
StartsWith(hay, needle) ==
    IF needle = <<>> THEN TRUE
    ELSE IF hay = <<>> THEN FALSE
    ELSE Head(hay) = Head(needle) /\ StartsWith(Tail(hay), Tail(needle))

\* String.prototype.includes: scans the positions of hay from the left.
RECURSIVE Includes(_, _)
Includes(hay, needle) ==
    IF StartsWith(hay, needle) THEN TRUE
    ELSE IF hay = <<>> THEN FALSE
    ELSE Includes(Tail(hay), needle)

(***************************************************************************)
(* Materials                                                               *)
(***************************************************************************)

\* A mesh reaches up to three material objects:
\*   "decl"  the material it was constructed or authored with,
\*   "orig"  userData.originalMaterial, the clone captured on the first visit,
\*   "clone" the object returned by the latest originalMaterial.clone(); each
\*           call returns a new object and the previous one becomes garbage.
NoRef == "none"

searchColor == "#3b82f6"
selectColor == "#f97316"
ghostColor  == "#cccccc"

\* <meshStandardMaterial color={part.color} metalness={0.4} roughness={0.5} />
StandardMaterial(color) ==
    [color |-> color, emissive |-> "#000000", emissiveIntensity |-> "1",
     transparent |-> FALSE, opacity |-> "1", roughness |-> "0.5",
     metalness |-> "0.4"]

\* Priority 1 of the procedural build.
SelectedPresetProcedural(m) ==
    [m EXCEPT !.emissive = selectColor, !.emissiveIntensity = "0.6",
              !.color = selectColor, !.transparent = FALSE, !.opacity = "1"]

\* Priority 1 of the file-loaded build ("made brighter").
SelectedPresetFile(m) ==
    [m EXCEPT !.emissive = selectColor, !.emissiveIntensity = "0.8",
              !.color = selectColor, !.transparent = FALSE, !.opacity = "1"]

\* Priority 2.
SearchPreset(m) ==
    [m EXCEPT !.emissive = searchColor, !.emissiveIntensity = "0.5",
              !.color = searchColor, !.transparent = FALSE, !.opacity = "1"]

\* A ghost preset that forgets to make the material transparent.
GhostPresetOpaque(m) ==
    [m EXCEPT !.opacity = "0.1", !.color = ghostColor, !.roughness = "1"]

\* Priority 3.
GhostPreset(m) ==
    [m EXCEPT !.transparent = TRUE, !.opacity = "0.1",
              !.color = ghostColor, !.roughness = "1"]

(***************************************************************************)
(* Scene data                                                              *)
(***************************************************************************)

\* SYSTEMS of the procedural build.
SystemsProcedural ==
    <<[id |-> "1", type |-> "demo-engine"],
      [id |-> "2", type |-> "demo-pump"],
      [id |-> "3", type |-> "demo-circuit"]>>

\* SYSTEMS of the file-loaded build: one asset.
SystemsFile ==
    <<[id |-> "1", path |-> "/models/source/antique_wooden_desk_with_props.glb"]>>

Systems(build) == IF build = "procedural" THEN SystemsProcedural ELSE SystemsFile

EngineParts ==
    <<[name |-> <<"E","n","g","i","n","e","-","H","o","u","s","i","n","g","-","O","u","t","e","r">>,
       geo |-> "box", color |-> "#475569"],
      [name |-> <<"P","i","s","t","o","n","-","0","0","1">>,
       geo |-> "cylinder", color |-> "#cbd5e1"],
      [name |-> <<"P","i","s","t","o","n","-","0","0","2">>,
       geo |-> "cylinder", color |-> "#cbd5e1"],
      [name |-> <<"P","i","s","t","o","n","-","0","0","3">>,
       geo |-> "cylinder", color |-> "#cbd5e1"],
      [name |-> <<"P","i","s","t","o","n","-","0","0","4">>,
       geo |-> "cylinder", color |-> "#cbd5e1"],
      [name |-> <<"G","e","a","r","-","D","r","i","v","e","-","M","a","i","n">>,
       geo |-> "torus", color |-> "#fbbf24"],
      [name |-> <<"S","h","a","f","t","-","C","o","u","p","l","i","n","g">>,
       geo |-> "box", color |-> "#94a3b8"]>>

PumpParts ==
    <<[name |-> <<"R","e","s","e","r","v","o","i","r","-","T","a","n","k">>,
       geo |-> "sphere", color |-> "#3b82f6"],
      [name |-> <<"V","a","l","v","e","-","I","n","l","e","t">>,
       geo |-> "box", color |-> "#ef4444"],
      [name |-> <<"V","a","l","v","e","-","O","u","t","l","e","t">>,
       geo |-> "box", color |-> "#22c55e"],
      [name |-> <<"P","i","p","e","-","C","o","n","n","e","c","t","o","r">>,
       geo |-> "cylinder", color |-> "#64748b"]>>

CircuitParts ==
    <<[name |-> <<"P","C","B","-","B","o","a","r","d","-","B","a","s","e">>,
       geo |-> "box", color |-> "#064e3b"],
      [name |-> <<"C","h","i","p","-","C","P","U">>,
       geo |-> "box", color |-> "#1e293b"],
      [name |-> <<"C","a","p","a","c","i","t","o","r","-","C","1">>,
       geo |-> "cylinder", color |-> "#eab308"],
      [name |-> <<"C","a","p","a","c","i","t","o","r","-","C","2">>,
       geo |-> "cylinder", color |-> "#eab308"],
      [name |-> <<"R","e","s","i","s","t","o","r","-","A","r","r","a","y">>,
       geo |-> "box", color |-> "#000000"]>>

\* The useMemo of ProceduralAssembly: the part descriptors of a system type;
\* any type that is neither engine nor pump gets the circuit parts.
parts(type) ==
    IF type = "demo-engine" THEN EngineParts
    ELSE IF type = "demo-pump" THEN PumpParts
    ELSE CircuitParts

Digits == <<"1","2","3","4","5","6","7","8","9">>

\* The engine-assigned unique handle of the object at position i of a scene.
Uuid(i) == <<"u", Digits[i]>>

\* userData without author-supplied entries.
NoExtras == [k \in {} |-> <<>>]

\* The material table of a node that has no material.
NoMats == [r \in {} |-> StandardMaterial("#000000")]

\* A scene-graph node that is not a mesh (the <group>, a nested Group).
GroupNode(i) ==
    [isMesh |-> FALSE, name |-> <<>>, uuid |-> Uuid(i), extras |-> NoExtras,
     originalMaterial |-> NoRef, material |-> NoRef, mats |-> NoMats]

\* A newly mounted <mesh name={part.name}> with its <meshStandardMaterial>
\* attached as mesh.material; userData is empty.
NewMesh(part, i) ==
    [isMesh |-> TRUE, name |-> part.name, uuid |-> Uuid(i), extras |-> NoExtras,
     originalMaterial |-> NoRef, material |-> "decl",
     mats |-> ("decl" :> StandardMaterial(part.color))]

\* The object a root reference points to.
Root(nodes) == [isNull |-> FALSE, nodes |-> nodes]

\* First mount of ProceduralAssembly: the <group> followed by one mesh per part.
MountAssembly(type) ==
    Root(<<GroupNode(1)>> \o
         [i \in 1..Len(parts(type)) |-> NewMesh(parts(type)[i], i + 1)])

\* Re-render of ProceduralAssembly with another type. Meshes are keyed by
\* index: a mesh whose index exists in both part lists is kept, with its
\* userData and its current mesh.material, and gets the new name; the new
\* color prop is applied to the declared material object. Meshes past the end
\* of the new list are unmounted, and indexes new to the list are mounted.
ReconcileAssembly(root, type) ==
    Root(<<root.nodes[1]>> \o
         [i \in 1..Len(parts(type)) |->
            IF i + 1 <= Len(root.nodes)
            THEN [root.nodes[i + 1] EXCEPT
                    !.name = parts(type)[i].name,
                    !.mats = [@ EXCEPT !["decl"] =
                                 [@ EXCEPT !.color = parts(type)[i].color]]]
            ELSE NewMesh(parts(type)[i], i + 1)])

(***************************************************************************)
(* The highlight routine                                                   *)
(***************************************************************************)

\* 1. Initialize original material storage if not exists.
CaptureOriginal(child) ==
    IF child.originalMaterial = NoRef
    THEN [child EXCEPT !.originalMaterial = "orig",
                       !.mats = ("orig" :> child.mats[child.material]) @@ child.mats]
    ELSE child

\* A reset branch that leaves the active material as it is.
RestoreKeepCurrent(child) == child

\* child.material = child.userData.originalMaterial
RestoreOriginal(child) == [child EXCEPT !.material = child.originalMaterial]

\* A clone call that hands back the cached original itself.
NewMatRefAliased(orig) == orig

\* The object child.userData.originalMaterial.clone() returns: a new one.
NewMatRef(orig) == "clone"

\* const newMat = originalMaterial.clone(); <preset written to newMat>;
\* child.material = newMat. kind names the branch taken.
ApplyPreset(child, kind, build) ==
    LET newMat == NewMatRef(child.originalMaterial)
        cloned == (newMat :> child.mats[child.originalMaterial]) @@ child.mats
        m      == cloned[newMat]
        preset == IF kind = "selected"
                  THEN IF build = "procedural"
                       THEN SelectedPresetProcedural(m)
                       ELSE SelectedPresetFile(m)
                  ELSE IF kind = "search" THEN SearchPreset(m)
                  ELSE GhostPreset(m)
    IN  [child EXCEPT !.mats = (newMat :> preset) @@ cloned,
                      !.material = newMat]

\* Selection test of the procedural build: names compared lower-cased.
IsSelectedProcedural(child, selectedPartName) ==
    /\ Truthy(selectedPartName)
    /\ ToLowerCase(OrEmpty(child.name)) = ToLowerCase(selectedPartName)

\* A selection test that forgets the comparison with the uuid.
IsSelectedFileAnySelection(child, selectedPartId) == Truthy(selectedPartId)

\* Selection test of the file-loaded build: the uuid.
IsSelectedFile(child, selectedPartId) ==
    /\ Truthy(selectedPartId)
    /\ child.uuid = selectedPartId

\* A search test that ignores the trimmed text being empty.
IsSearchMatchNoEmptyGuard(child, normalizedSearch) ==
    Includes(ToLowerCase(OrEmpty(child.name)), normalizedSearch)

\* A search test that compares the name as written, not lower-cased.
IsSearchMatchCaseSensitive(child, normalizedSearch) ==
    /\ Truthy(normalizedSearch)
    /\ Includes(OrEmpty(child.name), normalizedSearch)

\* normalizedSearch && partName.includes(normalizedSearch)
IsSearchMatch(child, normalizedSearch) ==
    /\ Truthy(normalizedSearch)
    /\ Includes(ToLowerCase(OrEmpty(child.name)), normalizedSearch)

\* A priority order that tests the search match before the selection.
PresetKindSearchFirst(isSelected, isSearchMatch) ==
    IF isSearchMatch THEN "search"
    ELSE IF isSelected THEN "selected"
    ELSE "ghost"

\* if (isSelected) ... else if (isSearchMatch) ... else ...
PresetKind(isSelected, isSearchMatch) ==
    IF isSelected THEN "selected"
    ELSE IF isSearchMatch THEN "search"
    ELSE "ghost"

\* A callback that takes a repeated selection of the selected mesh as a
\* request to deselect it.
HighlightChildToggle(child, normalizedSearch, selected, build) ==
    IF ~child.isMesh THEN child
    ELSE
      LET c == CaptureOriginal(child)
          isSelected == IF build = "procedural"
                        THEN IsSelectedProcedural(c, selected)
                        ELSE IsSelectedFile(c, selected)
          isSearchMatch == IsSearchMatch(c, normalizedSearch)
          shown == c.mats[c.material]
      IN  IF ~Truthy(normalizedSearch) /\ ~Truthy(selected)
          THEN RestoreOriginal(c)
          ELSE IF isSelected /\ shown.color = selectColor /\ shown.emissive = selectColor
          THEN RestoreOriginal(c)
          ELSE ApplyPreset(c, PresetKind(isSelected, isSearchMatch), build)

\* The callback of scene.traverse, for one node.
HighlightChild(child, normalizedSearch, selected, build) ==
    IF ~child.isMesh THEN child
    ELSE
      LET c == CaptureOriginal(child)
          isSelected == IF build = "procedural"
                        THEN IsSelectedProcedural(c, selected)
                        ELSE IsSelectedFile(c, selected)
          isSearchMatch == IsSearchMatch(c, normalizedSearch)
      IN  IF ~Truthy(normalizedSearch) /\ ~Truthy(selected)
          THEN RestoreOriginal(c)
          ELSE ApplyPreset(c, PresetKind(isSelected, isSearchMatch), build)

\* searchTerm.toLowerCase().trim()
NormalizedSearch(term) == Trim(ToLowerCase(term))

\* updateHighlight without its guard: traversing a missing root raises.
updateHighlightNoGuard(root, term, selected, build) ==
    IF root.isNull
    THEN [threw |-> TRUE, root |-> root]
    ELSE [threw |-> FALSE,
          root  |-> Root([i \in 1..Len(root.nodes) |->
                            HighlightChild(root.nodes[i], NormalizedSearch(term),
                                           selected, build)])]

\* updateHighlight(scene, searchTerm, selectedPartName | selectedPartId):
\* the outcome, as the root after the call and whether the call raised.
updateHighlight(root, term, selected, build) ==
    IF root.isNull
    THEN [threw |-> FALSE, root |-> root]
    ELSE [threw |-> FALSE,
          root  |-> Root([i \in 1..Len(root.nodes) |->
                            HighlightChild(root.nodes[i], NormalizedSearch(term),
                                           selected, build)])]

(***************************************************************************)
(* Inputs                                                                  *)
(***************************************************************************)

\* Longest asset scene, in nodes below the root.
MaxAssetNodes == 2

\* Texts typed into the search box.
SearchTexts ==
    { <<>>,
      <<"p","i","s","t","o","n">>,
      <<"g","e","a","r">>,
      <<" ","G","E","A","R"," ">>,
      <<" "," ">> }

\* Materials an asset may be authored with.
WoodMaterial ==
    [color |-> "#8b5a2b", emissive |-> "#000000", emissiveIntensity |-> "1",
     transparent |-> FALSE, opacity |-> "1", roughness |-> "0.8",
     metalness |-> "0"]

GlassMaterial ==
    [color |-> "#ffffff", emissive |-> "#101010", emissiveIntensity |-> "1",
     transparent |-> TRUE, opacity |-> "0.5", roughness |-> "0",
     metalness |-> "0"]

\* An authored mesh of an asset, at position i of the scene.
AssetMesh(name, extras, material, i) ==
    [isMesh |-> TRUE, name |-> name, uuid |-> Uuid(i), extras |-> extras,
     originalMaterial |-> NoRef, material |-> "decl",
     mats |-> ("decl" :> material)]

\* The kinds of node an asset is built from here: named meshes with and
\* without author-supplied metadata, an unnamed mesh, a mesh whose name is
\* missing, and a nested group.
AssetKinds == {"gear", "shaft", "unnamed", "missing"}

\* The kinds the assets loaded by the panel are built from.
PanelAssetKinds == {"gear", "shaft", "group"}

AssetNode(kind, i) ==
    IF kind = "gear"
    THEN AssetMesh(<<"G","e","a","r","-","D","r","i","v","e","-","M","a","i","n">>,
                   NoExtras, WoodMaterial, i)
    ELSE IF kind = "shaft"
    THEN AssetMesh(<<"S","h","a","f","t","-","C","o","u","p","l","i","n","g">>,
                   ("id" :> <<"4","2">>), WoodMaterial, i)
    ELSE IF kind = "unnamed"
    THEN AssetMesh(<<>>, ("partNo" :> <<"7">>), GlassMaterial, i)
    ELSE IF kind = "missing"
    THEN AssetMesh(Undefined, NoExtras, WoodMaterial, i)
    ELSE GroupNode(i)

\* The scenes a loaded asset may hold: a root group and up to MaxAssetNodes
\* descendants, in traversal order.
AssetScenes(kinds) ==
    UNION { { Root(<<GroupNode(1)>> \o [i \in 1..n |-> AssetNode(ks[i], i + 1)]) :
                ks \in [1..n -> kinds] } :
            n \in 1..MaxAssetNodes }

\* Texts typed into the search box of the panel.
PanelSearchTexts ==
    { <<>>,
      <<"p","i","s","t","o","n">>,
      <<" ","G","E","A","R"," ">> }

(***************************************************************************)
(* The viewer panel                                                        *)
(***************************************************************************)

\* obj?.key
Get(obj, key) ==
    IF obj = Null THEN Undefined
    ELSE IF key \in DOMAIN obj THEN obj[key]
    ELSE Undefined

\* The selection prop handed to the scene component:
\* selectedPartName={selectedPart?.name} / selectedPartId={selectedPart?.id}.
SelectionProp(build, part) ==
    IF build = "procedural" THEN Get(part, "name") ELSE Get(part, "id")

\* The third dependency of the highlight effect: type / scene (one per url).
SceneKey(build, sys) ==
    IF build = "procedural" THEN SystemsProcedural[sys].type
    ELSE SystemsFile[sys].path

\* The record of an invocation: its arguments, and whether the invocation
\* before it was made on a root with the same search text and selection.
Call(rootNull, term, selected) ==
    [called |-> TRUE, rootNull |-> rootNull, term |-> term, selected |-> selected,
     repeat |-> /\ lastCall.called
                /\ ~rootNull
                /\ ~lastCall.rootNull
                /\ lastCall.term = term
                /\ lastCall.selected = selected]

NoCall ==
    [called |-> FALSE, rootNull |-> FALSE, term |-> <<>>, selected |-> Undefined,
     repeat |-> FALSE]

\* The record of a UI event: its kind, the clicked node or chosen system, and
\* for the events that clear state (system change, reset) what they cleared.
Event(kind, node, sys) ==
    [kind |-> kind, node |-> node, sys |-> sys,
     hadTerm |-> FALSE, hadPart |-> FALSE]

ClearingEvent(kind, sys) ==
    [kind |-> kind, node |-> 0, sys |-> sys,
     hadTerm |-> (searchTerm # <<>>), hadPart |-> (selectedPart # Null)]

\* A click on node i, and whether a part was selected when it came.
ClickEvent(i) ==
    [kind |-> "click", node |-> i, sys |-> 0,
     hadTerm |-> FALSE, hadPart |-> (selectedPart # Null)]

NoEvent == Event("none", 0, 0)

\* The commit that follows a state update: the rendered root is in place and
\* the highlight effect runs when it is mounted with changed dependencies.
\*   procedural: useEffect(() => { if (groupRef.current) updateHighlight(
\*       groupRef.current, highlight, selectedPartName) }, [highlight,
\*       selectedPartName, type])
\*   file: useEffect(() => { updateHighlight(scene, highlight, selectedPartId)
\*       }, [scene, highlight, selectedPartId])
Commit(rendered, sys, part, term) ==
    LET selected == SelectionProp(variant, part)
        deps     == <<term, selected, SceneKey(variant, sys)>>
        runs     == /\ ~rendered.isNull
                    /\ (~effectDeps.mounted \/ effectDeps.deps # deps)
        res      == updateHighlight(rendered, term, selected, variant)
    IN  IF runs
        THEN /\ scene' = res.root
             /\ threw' = (threw \/ res.threw)
             /\ effectDeps' = [mounted |-> TRUE, deps |-> deps]
             /\ lastCall' = Call(FALSE, term, selected)
        ELSE /\ scene' = rendered
             /\ UNCHANGED <<effectDeps, lastCall, threw>>

\* The root rendered for a system: the procedural group is reconciled with
\* the part list of the system's type; the loaded scene is the same object.
Render(sys) ==
    IF variant = "procedural" /\ ~scene.isNull
    THEN ReconcileAssembly(scene, SystemsProcedural[sys].type)
    ELSE scene

\* const handleSystemChange = (system) => { setActiveSystem(system);
\*   setSelectedPart(null); setSearchTerm(''); }
\* as the state <<activeSystem, selectedPart, searchTerm>> it leaves.
handleSystemChangeKeepSearch(sys, part, term) == <<sys, Null, term>>

handleSystemChange(sys, part, term) == <<sys, Null, <<>>>>

\* A sidebar whose system list is rendered whatever is selected.
ListViewAlwaysShown == TRUE

\* {selectedPart ? <detail view with "Back to List"> : <list of SYSTEMS buttons>}
\* the system buttons are rendered when selectedPart is null.
ListViewShown == selectedPart = Null

\* A click on a system button of the list view.
SystemChange ==
    /\ ListViewShown
    /\ \E sys \in 1..Len(Systems(variant)) :
         LET st == handleSystemChange(sys, selectedPart, searchTerm)
         IN  /\ activeSystem' = st[1]
             /\ selectedPart' = st[2]
             /\ searchTerm' = st[3]
             /\ lastEvent' = ClearingEvent("systemChange", sys)
             /\ Commit(Render(st[1]), st[1], st[2], st[3])
    /\ UNCHANGED <<variant, autoRotate, orbitMoved>>

\* The bundle the file-loaded build reports for a clicked object:
\* { id: e.object.uuid, name: e.object.name, ...e.object.userData };
\* entries of userData replace id and name when they carry the same key.
ClickBundle(node) ==
    LET userData == IF node.originalMaterial = NoRef
                    THEN node.extras
                    ELSE ("originalMaterial" :> <<"[material]">>) @@ node.extras
    IN  userData @@ ("id" :> node.uuid) @@ ("name" :> node.name)

\* The part descriptor the procedural build reports: onPartSelect(part).
ClickPart(sys, i) ==
    LET part == parts(SystemsProcedural[sys].type)[i]
    IN  ("name" :> part.name) @@ ("geo" :> <<part.geo>>) @@ ("color" :> <<part.color>>)

\* A click on mesh i of the scene, reported through handlePartSelect.
PartClick ==
    /\ ~scene.isNull
    /\ \E i \in 1..Len(scene.nodes) :
         /\ scene.nodes[i].isMesh
         /\ selectedPart' = IF variant = "procedural"
                            THEN ClickPart(activeSystem, i - 1)
                            ELSE ClickBundle(scene.nodes[i])
         /\ lastEvent' = ClickEvent(i)
         /\ Commit(scene, activeSystem, selectedPart', searchTerm)
    /\ UNCHANGED <<variant, activeSystem, searchTerm, autoRotate, orbitMoved>>

\* "Back to List": setSelectedPart(null); shown in the detail view.
BackToList ==
    /\ ~ListViewShown
    /\ selectedPart' = Null
    /\ lastEvent' = Event("back", 0, 0)
    /\ Commit(scene, activeSystem, Null, searchTerm)
    /\ UNCHANGED <<variant, activeSystem, searchTerm, autoRotate, orbitMoved>>

\* onChange of the search input: setSearchTerm(e.target.value).
SearchInput ==
    /\ \E text \in PanelSearchTexts :
         /\ text # searchTerm
         /\ searchTerm' = text
         /\ Commit(scene, activeSystem, selectedPart, text)
    /\ lastEvent' = Event("search", 0, 0)
    /\ UNCHANGED <<variant, activeSystem, selectedPart, autoRotate, orbitMoved>>

\* "Clear": setSearchTerm(''); shown while searchTerm is non-empty.
SearchClear ==
    /\ searchTerm # <<>>
    /\ searchTerm' = <<>>
    /\ lastEvent' = Event("clear", 0, 0)
    /\ Commit(scene, activeSystem, selectedPart, <<>>)
    /\ UNCHANGED <<variant, activeSystem, selectedPart, autoRotate, orbitMoved>>

\* A "Reset View" that leaves the selected part alone.
ResetViewKeepSelection ==
    /\ searchTerm' = <<>>
    /\ orbitMoved' = FALSE
    /\ lastEvent' = ClearingEvent("reset", 0)
    /\ Commit(scene, activeSystem, selectedPart, <<>>)
    /\ UNCHANGED <<variant, activeSystem, selectedPart, autoRotate>>

\* "Reset View": setSearchTerm(''); setSelectedPart(null); orbitRef.current?.reset()
ResetView ==
    /\ searchTerm' = <<>>
    /\ selectedPart' = Null
    /\ orbitMoved' = FALSE
    /\ lastEvent' = ClearingEvent("reset", 0)
    /\ Commit(scene, activeSystem, Null, <<>>)
    /\ UNCHANGED <<variant, activeSystem, autoRotate>>

\* "Toggle Rotation": setAutoRotate(!autoRotate)
ToggleRotation ==
    /\ autoRotate' = ~autoRotate
    /\ lastEvent' = Event("rotate", 0, 0)
    /\ UNCHANGED <<variant, activeSystem, selectedPart, searchTerm, orbitMoved,
                   scene, effectDeps, lastCall, threw>>

\* A pointer drag on the canvas, handled by OrbitControls.
OrbitDrag ==
    /\ ~orbitMoved
    /\ orbitMoved' = TRUE
    /\ lastEvent' = Event("orbit", 0, 0)
    /\ UNCHANGED <<variant, activeSystem, selectedPart, searchTerm, autoRotate,
                   scene, effectDeps, lastCall, threw>>

\* The asset arrives: useGLTF / useFBX stops suspending, BaseInteractiveModel
\* mounts with the loaded scene and its effect runs.
LoadComplete ==
    /\ variant = "file"
    /\ scene.isNull
    /\ \E loaded \in AssetScenes(PanelAssetKinds) :
         Commit(loaded, activeSystem, selectedPart, searchTerm)
    /\ lastEvent' = Event("loaded", 0, 0)
    /\ UNCHANGED <<variant, activeSystem, selectedPart, searchTerm, autoRotate,
                   orbitMoved>>

\* The panel after its first render: the procedural group is mounted and its
\* effect has run once; the file-loaded build is still suspended on its asset.
Init ==
    /\ variant \in {"procedural", "file"}
    /\ activeSystem = 1
    /\ selectedPart = Null
    /\ searchTerm = <<>>
    /\ autoRotate = FALSE
    /\ orbitMoved = FALSE
    /\ threw = FALSE
    /\ lastEvent = NoEvent
    /\ IF variant = "procedural"
       THEN /\ scene = updateHighlight(MountAssembly(SystemsProcedural[1].type),
                                       <<>>, Undefined, "procedural").root
            /\ effectDeps = [mounted |-> TRUE,
                             deps |-> <<<<>>, Undefined, SystemsProcedural[1].type>>]
            /\ lastCall = [called |-> TRUE, rootNull |-> FALSE, term |-> <<>>,
                           selected |-> Undefined, repeat |-> FALSE]
       ELSE /\ scene = Null
            /\ effectDeps = [mounted |-> FALSE, deps |-> <<>>]
            /\ lastCall = NoCall

Next ==
    \/ SystemChange
    \/ PartClick
    \/ BackToList
    \/ SearchInput
    \/ SearchClear
    \/ ResetView
    \/ ToggleRotation
    \/ OrbitDrag
    \/ LoadComplete

Spec == Init /\ [][Next]_vars

(***************************************************************************)
(* The highlight routine on its own: any scene, any arguments              *)
(***************************************************************************)

\* Scenes the routine is handed: an assembly of the procedural build as
\* mounted, or the scene of an asset.
HighlightScenes(build) ==
    IF build = "procedural"
    THEN { MountAssembly(SystemsProcedural[s].type) :
             s \in 1..Len(SystemsProcedural) }
    ELSE AssetScenes(AssetKinds)

\* Selection arguments: none, the empty string, the identifier of each mesh
\* of the scene (its name / its uuid), and identifiers no mesh of it has.
SelectionArgs(build, root) ==
    {Undefined, <<>>}
      \cup { IF build = "procedural" THEN root.nodes[i].name ELSE root.nodes[i].uuid :
               i \in { j \in 1..Len(root.nodes) : root.nodes[j].isMesh } }
      \cup (IF build = "procedural"
            THEN { PumpParts[2].name }
            ELSE { <<"4","2">> })

InitHighlight ==
    /\ variant \in {"procedural", "file"}
    /\ scene \in HighlightScenes(variant)
    /\ activeSystem = 1
    /\ selectedPart = Null
    /\ searchTerm = <<>>
    /\ autoRotate = FALSE
    /\ orbitMoved = FALSE
    /\ threw = FALSE
    /\ lastEvent = NoEvent
    /\ effectDeps = [mounted |-> FALSE, deps |-> <<>>]
    /\ lastCall = NoCall

\* One invocation updateHighlight(root, term, selected), with root the scene
\* or a missing root.
InvokeHighlight ==
    /\ \E rootNull \in BOOLEAN, term \in SearchTexts,
          selected \in SelectionArgs(variant, scene) :
         \* a missing root is tried with two of the argument pairs
         /\ rootNull => /\ term \in {<<>>, <<"g","e","a","r">>}
                        /\ selected = Undefined
         /\ LET res == updateHighlight(IF rootNull THEN Null ELSE scene,
                                    term, selected, variant)
            IN  /\ scene' = IF rootNull THEN scene ELSE res.root
                /\ threw' = (threw \/ res.threw)
                /\ lastCall' = Call(rootNull, term, selected)
    /\ UNCHANGED <<variant, activeSystem, selectedPart, searchTerm, autoRotate,
                   orbitMoved, effectDeps, lastEvent>>

NextHighlight == InvokeHighlight

SpecHighlight == InitHighlight /\ [][NextHighlight]_vars

(***************************************************************************)
(* Vocabulary of the properties                                            *)
(***************************************************************************)

\* The positions of the meshes of a root.
Meshes(root) == { i \in 1..Len(root.nodes) : root.nodes[i].isMesh }

\* The material a mesh is drawn with.
Shown(node) == node.mats[node.material]

\* The three presets, read off the material a mesh is drawn with.
ShowsSelected(node) ==
    /\ Shown(node).color = "#f97316"
    /\ Shown(node).emissive = "#f97316"
    /\ Shown(node).transparent = FALSE
    /\ Shown(node).opacity = "1"

ShowsSearchMatch(node) ==
    /\ Shown(node).color = "#3b82f6"
    /\ Shown(node).emissive = "#3b82f6"
    /\ Shown(node).emissiveIntensity = "0.5"
    /\ Shown(node).transparent = FALSE
    /\ Shown(node).opacity = "1"

ShowsGhost(node) ==
    /\ Shown(node).transparent = TRUE
    /\ Shown(node).opacity = "0.1"
    /\ Shown(node).color = "#cccccc"

\* The mesh is drawn with its cached original: the same object.
ShowsOriginal(node) ==
    /\ node.originalMaterial # NoRef
    /\ node.material = node.originalMaterial

\* The identifier a mesh is selected by: its name in the procedural build,
\* its uuid in the file-loaded build.
Identifier(build, node) == IF build = "procedural" THEN node.name ELSE node.uuid

\* The mesh is the selected one of an invocation with this selection.
IsTheSelected(build, node, selected) ==
    /\ selected # Undefined
    /\ selected # <<>>
    /\ Identifier(build, node) = selected

\* The text is empty once surrounding white space is removed.
Blank(text) == \A i \in 1..Len(text) : text[i] \in {" ", "\t", "\n"}

\* The text without its surrounding white space.
Core(text) ==
    IF Blank(text) THEN <<>>
    ELSE LET first == CHOOSE i \in 1..Len(text) :
                         /\ text[i] \notin {" ", "\t", "\n"}
                         /\ \A j \in 1..(i - 1) : text[j] \in {" ", "\t", "\n"}
             last  == CHOOSE i \in 1..Len(text) :
                         /\ text[i] \notin {" ", "\t", "\n"}
                         /\ \A j \in (i + 1)..Len(text) : text[j] \in {" ", "\t", "\n"}
         IN  SubSeq(text, first, last)

\* Two characters that are equal up to letter case.
SameLetter(a, b) ==
    \/ a = b
    \/ \E i \in 1..Len(UpperLetters) :
         {a, b} = {UpperLetters[i], LowerLetters[i]}

\* The text, trimmed, is non-empty and occurs in the name up to letter case.
\* A missing name counts as the empty name.
Matches(text, name) ==
    LET core == Core(text)
        n    == IF name = Undefined THEN <<>> ELSE name
    IN  /\ core # <<>>
        /\ \E k \in 0..(Len(n) - Len(core)) :
             \A j \in 1..Len(core) : SameLetter(n[k + j], core[j])

\* The last invocation ran on the scene (its root was not missing).
Ran == lastCall.called /\ ~lastCall.rootNull

GearDriveMain == <<"G","e","a","r","-","D","r","i","v","e","-","M","a","i","n">>
ShaftCoupling == <<"S","h","a","f","t","-","C","o","u","p","l","i","n","g">>

(***************************************************************************)
(* Properties of the highlight routine (checked under SpecHighlight)       *)
(***************************************************************************)

\* C1: after an invocation whose search text is empty once trimmed and whose
\* selection is none, every mesh under the root is drawn with its cached
\* original material, userData.originalMaterial, whatever it showed before.
C1_ResetRestoresOriginal ==
    (Ran /\ Blank(lastCall.term) /\ lastCall.selected \in {Undefined, <<>>})
      => \A i \in Meshes(scene) : ShowsOriginal(scene.nodes[i])

\* C1 happens: a reset invocation with a white-space search text on a scene
\* whose mesh had been ghosted and whose other mesh had been selected (the
\* clones of those invocations are still in the table).
C1_Witness ==
    /\ Ran
    /\ lastCall.term = <<" "," ">>
    /\ lastCall.selected = Undefined
    /\ \E i, j \in Meshes(scene) :
         /\ ShowsOriginal(scene.nodes[i])
         /\ ShowsOriginal(scene.nodes[j])
         /\ "clone" \in DOMAIN scene.nodes[i].mats
         /\ "clone" \in DOMAIN scene.nodes[j].mats
         /\ scene.nodes[i].mats["clone"].color = "#cccccc"
         /\ scene.nodes[j].mats["clone"].color = "#f97316"

\* C2: after an invocation with a non-empty selection, the mesh whose
\* identifier equals the selection shows the selected preset (orange,
\* opaque) and not the search-match preset, also when its name matches the
\* search text.
C2_SelectionPrecedence ==
    Ran =>
      \A i \in Meshes(scene) :
         IsTheSelected(variant, scene.nodes[i], lastCall.selected)
           => /\ ShowsSelected(scene.nodes[i])
              /\ ~ShowsSearchMatch(scene.nodes[i])

\* C2 happens: the selected mesh also matches the search text.
C2_Witness ==
    /\ Ran
    /\ \E i \in Meshes(scene) :
         /\ IsTheSelected(variant, scene.nodes[i], lastCall.selected)
         /\ Matches(lastCall.term, scene.nodes[i].name)
         /\ ShowsSelected(scene.nodes[i])

\* C3: after an invocation, a mesh that is not the selected one shows the
\* ghost preset (transparent, opacity 0.1, grey) when the trimmed search text
\* is non-empty and does not occur in its name, and also when the search text
\* is empty and a selection is set.
C3_GhostForTheRest ==
    Ran =>
      \A i \in Meshes(scene) :
         ( /\ ~IsTheSelected(variant, scene.nodes[i], lastCall.selected)
           /\ \/ ~Blank(lastCall.term) /\ ~Matches(lastCall.term, scene.nodes[i].name)
              \/ Blank(lastCall.term) /\ lastCall.selected \notin {Undefined, <<>>} )
           => ShowsGhost(scene.nodes[i])

\* C3 happens, both ways: a mesh ghosted by a search text it does not match
\* next to a selected mesh; the clone table of a mesh shows the case apart.
C3_Witness ==
    /\ Ran
    /\ ~Blank(lastCall.term)
    /\ \E i, j \in Meshes(scene) :
         /\ IsTheSelected(variant, scene.nodes[i], lastCall.selected)
         /\ ~IsTheSelected(variant, scene.nodes[j], lastCall.selected)
         /\ ~Matches(lastCall.term, scene.nodes[j].name)
         /\ ShowsGhost(scene.nodes[j])

\* What is seen of a scene: the fields of the material each mesh is drawn with.
Visual(root) == [i \in Meshes(root) |-> Shown(root.nodes[i])]

\* C4: an invocation that repeats the search text and the selection of the
\* invocation before it leaves every mesh with the same material fields.
C4_Idempotent ==
    [][(lastCall'.repeat /\ ~lastCall.repeat) => Visual(scene') = Visual(scene)]_vars

\* C4 happens: a repeated invocation with a selection and a search text, on a
\* scene with a selected and a ghosted mesh.
C4_Witness ==
    /\ lastCall.repeat
    /\ ~Blank(lastCall.term)
    /\ \E i, j \in Meshes(scene) :
         /\ ShowsSelected(scene.nodes[i])
         /\ ShowsGhost(scene.nodes[j])

\* C6: a mesh is a search match exactly when the search text, trimmed and
\* lower-cased, is non-empty and occurs in the mesh's lower-cased name. Seen
\* on the meshes that are not the selected one: such a mesh shows the
\* search-match preset exactly when the text matches its name. "gear" in any
\* letter case and with surrounding spaces matches Gear-Drive-Main and not
\* Shaft-Coupling; a white-space text matches no mesh and counts as an empty
\* search; an empty or missing name matches no text.
C6_SearchMatchRule ==
    Ran =>
      /\ \A i \in Meshes(scene) :
           ~IsTheSelected(variant, scene.nodes[i], lastCall.selected)
             => /\ (ShowsSearchMatch(scene.nodes[i])
                      <=> Matches(lastCall.term, scene.nodes[i].name))
                /\ ( ( /\ lastCall.term \in {<<"g","e","a","r">>,
                                             <<" ","G","E","A","R"," ">>}
                       /\ scene.nodes[i].name = GearDriveMain )
                       => ShowsSearchMatch(scene.nodes[i]) )
                /\ ( scene.nodes[i].name \in {ShaftCoupling, <<>>, Undefined}
                       => ~ShowsSearchMatch(scene.nodes[i]) )
      /\ ( (lastCall.term = <<" "," ">> /\ lastCall.selected \in {Undefined, <<>>})
             => \A i \in Meshes(scene) : ShowsOriginal(scene.nodes[i]) )

\* C6 happens: the text " GEAR " with Gear-Drive-Main search-matched next to
\* a ghosted mesh that has no name or is Shaft-Coupling.
C6_Witness ==
    /\ Ran
    /\ lastCall.term = <<" ","G","E","A","R"," ">>
    /\ \E i, j \in Meshes(scene) :
         /\ scene.nodes[i].name = GearDriveMain
         /\ ShowsSearchMatch(scene.nodes[i])
         /\ scene.nodes[j].name \in {ShaftCoupling, <<>>, Undefined}
         /\ ShowsGhost(scene.nodes[j])

\* C8: an invocation with a missing root raises no error and changes no
\* mesh: neither the material it is drawn with nor its cached original.
C8_MissingRootIsNoOp ==
    [][lastCall'.rootNull => (~threw' /\ scene' = scene)]_vars

\* C8 happens: an invocation with a missing root while the scene holds a
\* highlighted mesh.
C8_Witness ==
    /\ lastCall.called
    /\ lastCall.rootNull
    /\ ~threw
    /\ \E i \in Meshes(scene) : ShowsGhost(scene.nodes[i])

\* C9: the cached original of a mesh is set by the first invocation that
\* visits it, to a copy of the material the mesh had; afterwards no invocation
\* replaces it or changes a field of it; and a preset is only ever written to
\* another object than the cached original.
C9_OneTimeCapture ==
    [][ /\ lastCall'.rootNull = FALSE
          => \A i \in Meshes(scene') : scene'.nodes[i].originalMaterial # NoRef
        /\ \A i \in Meshes(scene) :
             /\ scene.nodes[i].originalMaterial = NoRef
                  => \/ scene'.nodes[i].originalMaterial = NoRef
                     \/ scene'.nodes[i].mats[scene'.nodes[i].originalMaterial]
                          = Shown(scene.nodes[i])
             /\ scene.nodes[i].originalMaterial # NoRef
                  => /\ scene'.nodes[i].originalMaterial = scene.nodes[i].originalMaterial
                     /\ scene'.nodes[i].mats[scene'.nodes[i].originalMaterial]
                          = scene.nodes[i].mats[scene.nodes[i].originalMaterial]
        /\ \A i \in Meshes(scene') :
             (\/ ShowsSelected(scene'.nodes[i])
              \/ ShowsSearchMatch(scene'.nodes[i])
              \/ ShowsGhost(scene'.nodes[i]))
               => scene'.nodes[i].material # scene'.nodes[i].originalMaterial
      ]_vars

\* C9 happens: a mesh that has been selected and is now ghosted by a repeated
\* invocation, its cached original still equal to the material it came with.
C9_Witness ==
    /\ Ran
    /\ lastCall.repeat
    /\ \E i \in Meshes(scene) :
         /\ ShowsGhost(scene.nodes[i])
         /\ scene.nodes[i].originalMaterial = "orig"
         /\ scene.nodes[i].mats["orig"] = scene.nodes[i].mats["decl"]
         /\ scene.nodes[i].mats["orig"].transparent = FALSE

(***************************************************************************)
(* Properties of the viewer panel (checked under Spec)                     *)
(***************************************************************************)

\* C5: a change of the active system sets the active system to the chosen
\* one, the selected part to none and the search text to empty, and leaves
\* the auto-rotate flag as it was.
C5_SystemChangeClears ==
    [][lastEvent'.kind = "systemChange"
         => /\ activeSystem' = lastEvent'.sys
            /\ selectedPart' = Null
            /\ searchTerm' = <<>>
            /\ autoRotate' = autoRotate]_vars

\* C5 happens: a change to the second system from a state with a search
\* text, with auto-rotate on.
C5_Witness ==
    /\ lastEvent.kind = "systemChange"
    /\ lastEvent.sys = 2
    /\ lastEvent.hadTerm
    /\ activeSystem = 2
    /\ searchTerm = <<>>
    /\ autoRotate

\* The names of the four pistons of the engine.
PistonNames ==
    { <<"P","i","s","t","o","n","-","0","0","1">>,
      <<"P","i","s","t","o","n","-","0","0","2">>,
      <<"P","i","s","t","o","n","-","0","0","3">>,
      <<"P","i","s","t","o","n","-","0","0","4">> }

\* C7: in the demo engine system with no part selected and the search text
\* "piston", exactly the four pistons show the search-match preset and the
\* other three meshes (housing, gear, shaft) show the ghost preset.
C7_PistonScenario ==
    ( /\ variant = "procedural"
      /\ activeSystem = 1
      /\ selectedPart = Null
      /\ searchTerm = <<"p","i","s","t","o","n">> )
      => /\ { scene.nodes[i].name : i \in Meshes(scene) }
              = PistonNames \cup
                { <<"E","n","g","i","n","e","-","H","o","u","s","i","n","g","-","O","u","t","e","r">>,
                  GearDriveMain, ShaftCoupling }
         /\ Cardinality({ i \in Meshes(scene) : ShowsSearchMatch(scene.nodes[i]) }) = 4
         /\ Cardinality({ i \in Meshes(scene) : ShowsGhost(scene.nodes[i]) }) = 3
         /\ \A i \in Meshes(scene) :
              IF scene.nodes[i].name \in PistonNames
              THEN ShowsSearchMatch(scene.nodes[i]) /\ ~ShowsGhost(scene.nodes[i])
              ELSE ShowsGhost(scene.nodes[i]) /\ ~ShowsSearchMatch(scene.nodes[i])

\* C7 happens: the search "piston" in the engine system, reached after a
\* visit to another system.
C7_Witness ==
    /\ variant = "procedural"
    /\ activeSystem = 1
    /\ selectedPart = Null
    /\ searchTerm = <<"p","i","s","t","o","n">>
    /\ lastEvent.kind = "search"
    /\ \E i \in Meshes(scene) :
         /\ scene.nodes[i].name \in PistonNames
         /\ ShowsSearchMatch(scene.nodes[i])
         /\ "clone" \in DOMAIN scene.nodes[i].mats

\* C10: in the file-loaded build, after a click on a mesh the reported bundle
\* carries the mesh's uuid as its id, whatever the mesh's userData holds, so
\* the selection handed to the highlight routine is that uuid and the clicked
\* mesh shows the selected preset.
C10_ClickSelectsByUuid ==
    (variant = "file" /\ lastEvent.kind = "click")
      => /\ selectedPart # Null
         /\ selectedPart["id"] = scene.nodes[lastEvent.node].uuid
         /\ lastCall.selected = scene.nodes[lastEvent.node].uuid
         /\ ShowsSelected(scene.nodes[lastEvent.node])

\* C11: there is one selected part at most: a click on a mesh makes the
\* clicked part the selected one, whatever was selected before, and after
\* the highlight pass at most one mesh of the scene shows the selected
\* preset, and none does while no part is selected.
C11_SingleSelection ==
    ~scene.isNull
      => /\ \A i, j \in Meshes(scene) :
              (ShowsSelected(scene.nodes[i]) /\ ShowsSelected(scene.nodes[j]))
                => i = j
         /\ (\E i \in Meshes(scene) : ShowsSelected(scene.nodes[i]))
              => selectedPart # Null
         /\ lastEvent.kind = "click"
              => /\ selectedPart # Null
                 /\ selectedPart["name"] = scene.nodes[lastEvent.node].name
                 /\ variant = "procedural"
                      => \A i \in Meshes(scene) :
                           ShowsSelected(scene.nodes[i]) <=> i = lastEvent.node

\* C11 happens: a click on a mesh while another part was selected, with a
\* second mesh in the scene; the clicked mesh is the one shown selected.
C11_Witness ==
    /\ ~scene.isNull
    /\ lastEvent.kind = "click"
    /\ lastEvent.hadPart
    /\ ShowsSelected(scene.nodes[lastEvent.node])
    /\ \E j \in Meshes(scene) :
         /\ j # lastEvent.node
         /\ ShowsGhost(scene.nodes[j])
         /\ scene.nodes[j].mats["clone"].emissive = "#000000"

\* The part descriptor behind mesh i of the procedural scene of a system.
PartOf(sys, i) == parts(SystemsProcedural[sys].type)[i - 1]

\* C12: in the procedural build the parts of a system are discarded when the
\* active system changes: the cached original of every mesh is the snapshot
\* of the material its part of the active system is declared with (the base
\* color of that part descriptor), and with an empty search and no selection
\* every mesh shows that base color.
C12_OriginalsOfActiveSystem ==
    (variant = "procedural" /\ ~scene.isNull)
      => \A i \in Meshes(scene) :
           /\ scene.nodes[i].name = PartOf(activeSystem, i).name
           /\ scene.nodes[i].originalMaterial # NoRef
           /\ scene.nodes[i].mats[scene.nodes[i].originalMaterial].color
                = PartOf(activeSystem, i).color
           /\ (searchTerm = <<>> /\ selectedPart = Null)
                => Shown(scene.nodes[i]).color = PartOf(activeSystem, i).color

\* C13: "Reset View" sets the search text to empty and the selected part to
\* none and resets the orbit control, leaves the active system and the
\* auto-rotate flag as they were, and after the highlight pass that follows
\* every mesh is drawn with its cached original material.
C13_ResetView ==
    [][lastEvent'.kind = "reset"
         => /\ searchTerm' = <<>>
            /\ selectedPart' = Null
            /\ orbitMoved' = FALSE
            /\ activeSystem' = activeSystem
            /\ autoRotate' = autoRotate
            /\ ~scene'.isNull
                 => \A i \in Meshes(scene') : ShowsOriginal(scene'.nodes[i])]_vars

\* C13 happens: a reset from a state with a search text and a selected part,
\* with auto-rotate on; the mesh that was highlighted shows its original.
C13_Witness ==
    /\ lastEvent.kind = "reset"
    /\ lastEvent.hadTerm
    /\ lastEvent.hadPart
    /\ autoRotate
    /\ ~orbitMoved
    /\ ~scene.isNull
    /\ \E i \in Meshes(scene) :
         /\ ShowsOriginal(scene.nodes[i])
         /\ "clone" \in DOMAIN scene.nodes[i].mats
         /\ scene.nodes[i].mats["clone"].color = "#f97316"

\* The preset the policy gives a mesh for a search text and a decision on
\* whether the mesh is the selected one: selection first, then a search match,
\* then ghost while either is set, the cached original when both are empty.
FollowsPolicy(node, term, isSelected, anySelected) ==
    IF isSelected THEN ShowsSelected(node)
    ELSE IF Matches(term, node.name) THEN ShowsSearchMatch(node)
    ELSE IF anySelected \/ ~Blank(term) THEN ShowsGhost(node)
    ELSE ShowsOriginal(node)

\* The presets are those of the policy for the current search text and the
\* identifier the panel hands to the highlight routine (selectedPart?.name,
\* selectedPart?.id), whatever events came before.
PresetsFollowIdentifier ==
    ~scene.isNull
      => \A i \in Meshes(scene) :
           FollowsPolicy(scene.nodes[i], searchTerm,
                         IsTheSelected(variant, scene.nodes[i],
                                       SelectionProp(variant, selectedPart)),
                         selectedPart # Null)

\* C14: after every UI event and the highlight pass it triggers, the preset of
\* each mesh is the one the current search text and the current selection
\* determine: while a part is selected exactly one mesh, carrying the part's
\* name, shows the selected preset, and every other mesh is search-matched if
\* its name matches the search and ghosted otherwise; with no part selected,
\* matches are search-matched and the rest ghosted while a search is active;
\* originals show only when both are empty.
C14_PresetsFollowState ==
    ~scene.isNull
      => /\ selectedPart # Null
              => \E s \in Meshes(scene) :
                   /\ scene.nodes[s].name = selectedPart["name"]
                   /\ \A i \in Meshes(scene) :
                        FollowsPolicy(scene.nodes[i], searchTerm, i = s, TRUE)
         /\ selectedPart = Null
              => \A i \in Meshes(scene) :
                   FollowsPolicy(scene.nodes[i], searchTerm, FALSE, FALSE)

\* C15: handleSystemChange is invoked only in states where no part is
\* selected (the system list is not rendered in the detail view), and a
\* selected part becomes none only through "Back to List" or "Reset View",
\* so a system change from a state with a selected part has one of the two
\* before it.
C15_SystemChangeOnlyFromList ==
    [][/\ lastEvent'.kind = "systemChange" => selectedPart = Null
       /\ (selectedPart # Null /\ selectedPart' = Null)
            => lastEvent'.kind \in {"back", "reset"}
       /\ selectedPart # Null => activeSystem' = activeSystem]_vars

\* C15 happens: a system change made after a part had been selected and then
\* deselected (the clone of that selection is still in a mesh's table).
C15_Witness ==
    /\ lastEvent.kind = "systemChange"
    /\ selectedPart = Null
    /\ ~scene.isNull
    /\ \E i \in Meshes(scene) :
         /\ "clone" \in DOMAIN scene.nodes[i].mats
         /\ scene.nodes[i].mats["clone"].color = "#f97316"

====
